---- MODULE Spec2Model ----
(***************************************************************************)
(* SP5ToICalExp: roster text -> per-person shift records -> statistics and *)
(* iCal calendars.  Strings are modelled as sequences of one-character     *)
(* strings, so that the regular expressions and the string operations of   *)
(* src/src/app/views.py and src/src/utils/text_to_ical.py are computed     *)
(* character by character.  The character "a_uml" stands for the letter    *)
(* a-umlaut of "Ganztaegig"; "\t" is TAB.                                  *)
(***************************************************************************)
EXTENDS Integers, Sequences, FiniteSets, TLC

VARIABLES
    text,           \* the extracted text handed to the conversion: its lines
    all_timezones,  \* pytz.all_timezones of the installation
    persons_data,   \* process_text_and_generate_stats: persons_data
    stats,          \* process_text_and_generate_stats: stats
    ical_contents,  \* process_text_and_generate_stats: ical_contents
    temp_file,      \* what the file named by session['temp_filename'] holds
    flashes,        \* the messages flashed to the user
    logged,         \* the errors logged
    pc,             \* "start" before the conversion, "returned" after it
    entry,          \* argument of normalize_entry
    normalized,     \* the results of the successive normalize_entry calls
    date_string,    \* argument of german_to_english_weekday
    translated,     \* the string german_to_english_weekday has built so far
    pending,        \* the replacements german_to_english_weekday has not applied yet
    shifts,         \* one person's records, handed to convert_shifts_to_ical
    ical_data,      \* what convert_shifts_to_ical returned or raised
    session,        \* the session of the user: session['temp_filename'] or None
    files,          \* the files of the installation: path -> what the file holds
    directories,    \* the directories of the installation
    response,       \* what the last request was answered with
    zip_path,       \* download: zip_path
    tempnames,      \* how many names the tempfile module has handed out
    requests        \* how many further requests the user has sent

vars == <<text, all_timezones, persons_data, stats, ical_contents, temp_file, flashes,
          logged, pc, entry, normalized, date_string, translated, pending, shifts,
          ical_data, session, files, directories, response, zip_path, tempnames,
          requests>>

pipeline_vars == <<text, persons_data, stats, ical_contents, temp_file, flashes, logged, pc>>
normalize_vars == <<entry, normalized>>
weekday_vars == <<date_string, translated, pending>>
encode_vars == <<shifts, ical_data>>
session_vars == <<session, files, directories, response, zip_path, tempnames, requests>>

\* Python's None, and a value that is not None
None == <<>>
Some(v) == <<v>>

\* the variables a specification does not use stay at these values
PipelineIdle ==
    /\ text = <<>> /\ persons_data = None /\ stats = None /\ ical_contents = None
    /\ temp_file = None /\ flashes = <<>> /\ logged = <<>> /\ pc = "idle"
NormalizeIdle == entry = <<>> /\ normalized = <<>>
WeekdayIdle == date_string = <<>> /\ translated = <<>> /\ pending = {}
EncodeIdle == shifts = <<>> /\ ical_data = None

\* a session without a temporary file name, no file, no request answered yet
SessionFresh ==
    /\ session = [temp_filename |-> None] /\ files = <<>> /\ response = None
    /\ zip_path = None /\ tempnames = 0 /\ requests = 0
SessionIdle == SessionFresh /\ directories = {}

(***************************************************************************)
(* Character classes of Python's re module, restricted to one line.        *)
(***************************************************************************)
Upper == <<"A","B","C","D","E","F","G","H","I","J","K","L","M",
           "N","O","P","Q","R","S","T","U","V","W","X","Y","Z">>
Lower == <<"a","b","c","d","e","f","g","h","i","j","k","l","m",
           "n","o","p","q","r","s","t","u","v","w","x","y","z">>
Digits == <<"0","1","2","3","4","5","6","7","8","9">>

Range(f) == {f[i] : i \in DOMAIN f}

\* Body of the value: a local of the code that is assigned once and read often
With(value, Body(_)) == Body(value)

DigitChars == Range(Digits)
SpaceChars == {" ", "\t"}
AsciiLetters == Range(Upper) \cup Range(Lower)

IsDigit(c) == c \in DigitChars
IsSpace(c) == c \in SpaceChars
IsAsciiLetter(c) == c \in AsciiLetters

DigitVal(c) == (CHOOSE i \in DOMAIN Digits : Digits[i] = c) - 1

\* s[i] exists and is a digit / is the character c
DigitAt(s, i) == i >= 1 /\ i <= Len(s) /\ IsDigit(s[i])
CharAt(s, i, c) == i >= 1 /\ i <= Len(s) /\ s[i] = c

\* does the literal lit occur in s at position i
OccursAt(s, lit, i) ==
    /\ i >= 1
    /\ i + Len(lit) - 1 <= Len(s)
    /\ \A k \in 1..Len(lit) : s[i + k - 1] = lit[k]

RECURSIVE lstrip(_)
lstrip(s) == IF s # <<>> /\ IsSpace(Head(s)) THEN lstrip(Tail(s)) ELSE s

RECURSIVE rstrip(_)
rstrip(s) ==
    IF s # <<>> /\ IsSpace(s[Len(s)]) THEN rstrip(SubSeq(s, 1, Len(s) - 1)) ELSE s

\* str.strip()
strip(s) == rstrip(lstrip(s))

(***************************************************************************)
(* normalize_entry, views.py:227-247                                       *)
(***************************************************************************)

\* re.sub(r'0$', '', entry)
sub_trailing_zero(s) ==
    IF s # <<>> /\ s[Len(s)] = "0" THEN SubSeq(s, 1, Len(s) - 1) ELSE s

\* the position after a match of \s?\d{1,2}-\d{1,2} that starts at i, 0 if none
range_match_end(s, i) ==
    LET p == IF i <= Len(s) /\ IsSpace(s[i]) THEN i + 1 ELSE i
    IN  With(IF DigitAt(s, p) /\ DigitAt(s, p + 1) /\ CharAt(s, p + 2, "-")
                  /\ DigitAt(s, p + 3)
             THEN p + 3
             ELSE IF DigitAt(s, p) /\ CharAt(s, p + 1, "-") /\ DigitAt(s, p + 2)
                  THEN p + 2
                  ELSE 0,
             LAMBDA q : IF q = 0 THEN 0 ELSE IF DigitAt(s, q + 1) THEN q + 2 ELSE q + 1)

\* re.sub(r'\s?\d{1,2}-\d{1,2}', '', entry): every non-overlapping match, left to right
RECURSIVE sub_range_from(_, _)
sub_range_from(s, i) ==
    IF i > Len(s) THEN <<>>
    ELSE With(range_match_end(s, i), LAMBDA e :
             IF e # 0 THEN sub_range_from(s, e)
             ELSE <<s[i]>> \o sub_range_from(s, i + 1))

\* an entry that keeps its time ranges
keep_range(s) == s

sub_range(s) == sub_range_from(s, 1)

\* first index of the maximal run of digits that ends the string (Len+1 if none)
RECURSIVE trailing_digits_start(_, _)
trailing_digits_start(s, k) ==
    IF k >= 1 /\ IsDigit(s[k]) THEN trailing_digits_start(s, k - 1) ELSE k + 1

\* re.sub(r'\s?\d+$', '', entry)
sub_trailing_number(s) ==
    With(trailing_digits_start(s, Len(s)), LAMBDA k :
        LET from == IF k > 1 /\ IsSpace(s[k - 1]) THEN k - 1 ELSE k
        IN  IF k > Len(s) THEN s ELSE SubSeq(s, 1, from - 1))

normalize_entry(e) == strip(sub_trailing_number(sub_range(sub_trailing_zero(e))))

(***************************************************************************)
(* Strings of bounded length over an alphabet.                             *)
(***************************************************************************)
RECURSIVE StringsUpTo(_, _)
StringsUpTo(alphabet, n) ==
    IF n = 0 THEN {<<>>}
    ELSE With(StringsUpTo(alphabet, n - 1), LAMBDA shorter :
             shorter \cup {Append(s, c) : s \in shorter, c \in alphabet})

MaxEntryLen == 4
EntryAlphabet == {"A", "0", "1", "-", " "}

\* process_extracted_text strips the entry before it normalizes it (views.py:292-297)
EntryStrings == {s \in StringsUpTo(EntryAlphabet, MaxEntryLen) : strip(s) = s}

(***************************************************************************)
(* normalize_entry applied again and again to an entry.                    *)
(***************************************************************************)
MaxNormalizations == 2

InitNormalize ==
    /\ entry \in EntryStrings
    /\ normalized = <<>>
    /\ all_timezones = {}
    /\ PipelineIdle /\ WeekdayIdle /\ EncodeIdle /\ SessionIdle

NormalizeAgain ==
    /\ Len(normalized) < MaxNormalizations
    /\ normalized' = Append(normalized,
                            normalize_entry(IF normalized = <<>> THEN entry
                                            ELSE normalized[Len(normalized)]))
    /\ UNCHANGED <<all_timezones, pipeline_vars, entry, weekday_vars, encode_vars,
                   session_vars>>

NextNormalize == NormalizeAgain

SpecNormalize == InitNormalize /\ [][NextNormalize]_vars

\* C2: normalize_entry is idempotent: a second application changes nothing.
C2_normalize_idempotent ==
    Len(normalized) >= 2 => normalized[2] = normalized[1]

(***************************************************************************)
(* german_to_english_weekday, views.py:199-224                             *)
(***************************************************************************)

\* str.replace(old, new): every non-overlapping occurrence, left to right
RECURSIVE replace_from(_, _, _, _)
replace_from(s, old, new, i) ==
    IF i > Len(s) THEN <<>>
    ELSE IF OccursAt(s, old, i) THEN new \o replace_from(s, old, new, i + Len(old))
         ELSE <<s[i]>> \o replace_from(s, old, new, i + 1)

replace(s, old, new) == replace_from(s, old, new, 1)

\* a table that sends two abbreviations to the same target
replacements_collide ==
    << <<(<<"M","o",".">>), (<<"M","o","n",".">>)>>,
       <<(<<"D","i",".">>), (<<"T","h","u",".">>)>>,
       <<(<<"M","i",".">>), (<<"W","e","d",".">>)>>,
       <<(<<"D","o",".">>), (<<"T","h","u",".">>)>>,
       <<(<<"F","r",".">>), (<<"F","r","i",".">>)>>,
       <<(<<"S","a",".">>), (<<"S","a","t",".">>)>>,
       <<(<<"S","o",".">>), (<<"S","u","n",".">>)>> >>

\* the dict replacements, in insertion order: <<german, english>>
replacements ==
    << <<(<<"M","o",".">>), (<<"M","o","n",".">>)>>,
       <<(<<"D","i",".">>), (<<"T","u","e",".">>)>>,
       <<(<<"M","i",".">>), (<<"W","e","d",".">>)>>,
       <<(<<"D","o",".">>), (<<"T","h","u",".">>)>>,
       <<(<<"F","r",".">>), (<<"F","r","i",".">>)>>,
       <<(<<"S","a",".">>), (<<"S","a","t",".">>)>>,
       <<(<<"S","o",".">>), (<<"S","u","n",".">>)>> >>

\* the loop over replacements.items(), entries k..Len
RECURSIVE apply_replacements(_, _)
apply_replacements(s, k) ==
    IF k > Len(replacements) THEN s
    ELSE apply_replacements(replace(s, replacements[k][1], replacements[k][2]), k + 1)

german_to_english_weekday(ds) == apply_replacements(ds, 1)

german == {replacements[k][1] : k \in DOMAIN replacements}
english == {replacements[k][2] : k \in DOMAIN replacements}

\* does s contain one of the source abbreviations
contains_german(s) == \E i \in 1..Len(s), g \in german : OccursAt(s, g, i)

(***************************************************************************)
(* The inputs of german_to_english_weekday: the seven abbreviations and     *)
(* strings put together from abbreviations and pieces of them.             *)
(***************************************************************************)
MaxTokens == 2
WeekdayTokens ==
    { <<"M","o",".">>, <<"D","i",".">>, <<"S","o",".">>,
      <<"M">>, <<"o">>, <<".">>, <<"S">>, <<" ","0","1">> }

RECURSIVE TokenStrings(_, _)
TokenStrings(tokens, n) ==
    IF n = 0 THEN {<<>>}
    ELSE LET shorter == TokenStrings(tokens, n - 1)
         IN  shorter \cup {s \o t : s \in shorter, t \in tokens}

WeekdayInputs == german \cup english \cup TokenStrings(WeekdayTokens, MaxTokens)

InitWeekday ==
    /\ date_string \in WeekdayInputs
    /\ translated = date_string
    /\ pending = DOMAIN replacements
    /\ all_timezones = {}
    /\ PipelineIdle /\ NormalizeIdle /\ EncodeIdle /\ SessionIdle

\* one pass of the loop body (views.py:221-222), for an entry not applied yet;
\* the order in which the entries are taken is left open
ApplyReplacement ==
    \E k \in pending :
        /\ translated' = replace(translated, replacements[k][1], replacements[k][2])
        /\ pending' = pending \ {k}
        /\ UNCHANGED <<all_timezones, pipeline_vars, normalize_vars, date_string,
                       encode_vars, session_vars>>

NextWeekday == ApplyReplacement

SpecWeekday == InitWeekday /\ [][NextWeekday]_vars

\* the seven abbreviations and the target the claim gives each of them
WeekdayTable ==
    << <<(<<"M","o",".">>), (<<"M","o","n",".">>)>>,
       <<(<<"D","i",".">>), (<<"T","u","e",".">>)>>,
       <<(<<"M","i",".">>), (<<"W","e","d",".">>)>>,
       <<(<<"D","o",".">>), (<<"T","h","u",".">>)>>,
       <<(<<"F","r",".">>), (<<"F","r","i",".">>)>>,
       <<(<<"S","a",".">>), (<<"S","a","t",".">>)>>,
       <<(<<"S","o",".">>), (<<"S","u","n",".">>)>> >>

\* C10 as stated: each abbreviation goes to its own target, in any order of the
\* substitutions, and every text that is not one of the seven abbreviations comes
\* back unchanged.
C10_original ==
    pending = {} =>
        /\ \A k \in DOMAIN WeekdayTable :
               date_string = WeekdayTable[k][1] => translated = WeekdayTable[k][2]
        /\ translated = german_to_english_weekday(date_string)
        /\ date_string \notin german => translated = date_string

\* C10 amended: each of the seven abbreviations goes to its own distinct target,
\* whatever the order of the substitutions the result is the one of the code's
\* order, and every text that contains none of the seven abbreviations comes back
\* unchanged.
C10_weekday_translation ==
    /\ Cardinality(german) = 7 /\ Cardinality(english) = 7
    /\ pending = {} =>
        /\ \A k \in DOMAIN WeekdayTable :
               date_string = WeekdayTable[k][1] => translated = WeekdayTable[k][2]
        /\ translated = german_to_english_weekday(date_string)
        /\ ~contains_german(date_string) => translated = date_string

C10_witness ==
    /\ pending = {}
    /\ date_string = <<"D","i",".">> \o <<" ","0","1">>
    /\ translated = <<"T","u","e",".">> \o <<" ","0","1">>

(***************************************************************************)
(* process_line, views.py:250-263                                          *)
(***************************************************************************)
Ganztaegig == <<"G","a","n","z","t","a_uml","g","i","g">>
Zeitraum == <<"Z","e","i","t","r","a","u","m">>
AllDay == <<"A","l","l"," ","D","a","y">>

\* first index >= i whose character is not an ASCII letter
RECURSIVE letters_end(_, _)
letters_end(s, i) ==
    IF i <= Len(s) /\ IsAsciiLetter(s[i]) THEN letters_end(s, i + 1) ELSE i

\* the position after a match of [A-Za-z]+\.\s\d{2}\.\d{2}\.\d{4} starting at i, 0 if none
date_match_end(s, i) ==
    With(letters_end(s, i), LAMBDA j :
        IF /\ j > i
           /\ CharAt(s, j, ".")
           /\ j + 1 <= Len(s) /\ IsSpace(s[j + 1])
           /\ DigitAt(s, j + 2) /\ DigitAt(s, j + 3) /\ CharAt(s, j + 4, ".")
           /\ DigitAt(s, j + 5) /\ DigitAt(s, j + 6) /\ CharAt(s, j + 7, ".")
           /\ DigitAt(s, j + 8) /\ DigitAt(s, j + 9)
           /\ DigitAt(s, j + 10) /\ DigitAt(s, j + 11)
        THEN j + 12
        ELSE 0)

\* the position after a match of \d{2}:\d{2}-\d{2}:\d{2} starting at i, 0 if none
time_match_end(s, i) ==
    IF /\ DigitAt(s, i) /\ DigitAt(s, i + 1) /\ CharAt(s, i + 2, ":")
       /\ DigitAt(s, i + 3) /\ DigitAt(s, i + 4) /\ CharAt(s, i + 5, "-")
       /\ DigitAt(s, i + 6) /\ DigitAt(s, i + 7) /\ CharAt(s, i + 8, ":")
       /\ DigitAt(s, i + 9) /\ DigitAt(s, i + 10)
    THEN i + 11
    ELSE 0

\* the position after a match of \d{1,2},\d{2} starting at i, 0 if none
hours_match_end(s, i) ==
    LET c == IF DigitAt(s, i) /\ DigitAt(s, i + 1) /\ CharAt(s, i + 2, ",") THEN i + 2
             ELSE IF DigitAt(s, i) /\ CharAt(s, i + 1, ",") THEN i + 1
             ELSE 0
    IN  IF c # 0 /\ DigitAt(s, c + 1) /\ DigitAt(s, c + 2) THEN c + 3 ELSE 0

\* where the lazy .*? that starts at i stops: the first position at which
\* "Zeitraum" follows, or the end of the line
RECURSIVE entry_end(_, _)
entry_end(s, i) ==
    IF i > Len(s) \/ OccursAt(s, Zeitraum, i) THEN i ELSE entry_end(s, i + 1)

\* a match object is <<groupdict>>, no match is the empty sequence
NoMatch == <<>>

\* pattern_regular matched at position i
regular_at(s, i) ==
    With(date_match_end(s, i), LAMBDA d :
    With(IF d # 0 /\ d <= Len(s) /\ IsSpace(s[d]) THEN time_match_end(s, d + 1) ELSE 0,
         LAMBDA t :
    With(IF t # 0 /\ t <= Len(s) /\ IsSpace(s[t]) THEN hours_match_end(s, t + 1) ELSE 0,
         LAMBDA h :
        IF h = 0 THEN NoMatch
        ELSE <<[date  |-> SubSeq(s, i, d - 1),
                time  |-> SubSeq(s, d + 1, t - 1),
                hours |-> SubSeq(s, t + 1, h - 1),
                entry |-> SubSeq(s, h, entry_end(s, h) - 1)]>>)))

\* pattern_all_day matched at position i (it has no "time" group)
all_day_at(s, i) ==
    With(date_match_end(s, i), LAMBDA d :
    With(IF d # 0 /\ d <= Len(s) /\ IsSpace(s[d]) /\ OccursAt(s, Ganztaegig, d + 1)
         THEN d + 1 + Len(Ganztaegig) ELSE 0,
         LAMBDA g :
    With(IF g # 0 /\ g <= Len(s) /\ IsSpace(s[g]) THEN hours_match_end(s, g + 1) ELSE 0,
         LAMBDA h :
        IF h = 0 THEN NoMatch
        ELSE <<[date  |-> SubSeq(s, i, d - 1),
                hours |-> SubSeq(s, g + 1, h - 1),
                entry |-> SubSeq(s, h, entry_end(s, h) - 1)]>>)))

\* pattern.search(line): the match at the leftmost position that has one
RECURSIVE search_regular(_, _)
search_regular(s, i) ==
    IF i > Len(s) THEN NoMatch
    ELSE With(regular_at(s, i), LAMBDA m :
             IF m # NoMatch THEN m ELSE search_regular(s, i + 1))

RECURSIVE search_all_day(_, _)
search_all_day(s, i) ==
    IF i > Len(s) THEN NoMatch
    ELSE With(all_day_at(s, i), LAMBDA m :
             IF m # NoMatch THEN m ELSE search_all_day(s, i + 1))

\* the all-day shape tried before the regular one
process_line_all_day_first(line) ==
    With(search_all_day(line, 1), LAMBDA match :
        IF match # NoMatch THEN match ELSE search_regular(line, 1))

\* pattern_regular.search(line) or pattern_all_day.search(line)
process_line(line) ==
    With(search_regular(line, 1), LAMBDA match :
        IF match # NoMatch THEN match ELSE search_all_day(line, 1))

(***************************************************************************)
(* process_extracted_text, views.py:266-308.  The text is kept as the      *)
(* sequence of its lines (text.split("\n")).                               *)
(***************************************************************************)

\* the position after a match of \d{1,2}:\d{2}-\d{1,2}:\d{2} starting at i, 0 if none
embedded_time_end(s, i) ==
    With(IF DigitAt(s, i) /\ DigitAt(s, i + 1) /\ CharAt(s, i + 2, ":") THEN i + 3
         ELSE IF DigitAt(s, i) /\ CharAt(s, i + 1, ":") THEN i + 2
         ELSE 0,
         LAMBDA a :
    With(IF a # 0 /\ DigitAt(s, a) /\ DigitAt(s, a + 1) /\ CharAt(s, a + 2, "-")
         THEN a + 3 ELSE 0,
         LAMBDA b :
    With(IF b # 0 /\ DigitAt(s, b) /\ DigitAt(s, b + 1) /\ CharAt(s, b + 2, ":")
         THEN b + 3
         ELSE IF b # 0 /\ DigitAt(s, b) /\ CharAt(s, b + 1, ":") THEN b + 2
         ELSE 0,
         LAMBDA c :
        IF c # 0 /\ DigitAt(s, c) /\ DigitAt(s, c + 1) THEN c + 2 ELSE 0)))

\* re.sub(r'\d{1,2}:\d{2}-\d{1,2}:\d{2}', '', entry)
RECURSIVE sub_time_from(_, _)
sub_time_from(s, i) ==
    IF i > Len(s) THEN <<>>
    ELSE With(embedded_time_end(s, i), LAMBDA e :
             IF e # 0 THEN sub_time_from(s, e)
             ELSE <<s[i]>> \o sub_time_from(s, i + 1))

\* a shift dictionary that is never marked all-day
shift_of_timed(processed_line) ==
    [date       |-> german_to_english_weekday(processed_line.date),
     shift_time |-> IF "time" \in DOMAIN processed_line THEN processed_line.time
                    ELSE AllDay,
     hours      |-> processed_line.hours,
     entry      |-> normalize_entry(strip(processed_line.entry)),
     all_day    |-> FALSE]

\* the shift dictionary appended for a matched line (views.py:284-306)
shift_of(processed_line) ==
    LET shift_time == IF "time" \in DOMAIN processed_line THEN processed_line.time
                      ELSE AllDay
        is_all_day == shift_time = AllDay
        cleaned == IF ~is_all_day
                   THEN strip(sub_time_from(strip(processed_line.entry), 1))
                   ELSE strip(processed_line.entry)
    IN  [date       |-> german_to_english_weekday(processed_line.date),
         shift_time |-> shift_time,
         hours      |-> processed_line.hours,
         entry      |-> normalize_entry(cleaned),
         all_day    |-> is_all_day]

RECURSIVE process_extracted_text(_)
process_extracted_text(lines) ==
    IF lines = <<>> THEN <<>>
    ELSE With(process_line(Head(lines)), LAMBDA processed_line :
             (IF processed_line # NoMatch THEN <<shift_of(processed_line[1])>> ELSE <<>>)
             \o process_extracted_text(Tail(lines)))

(***************************************************************************)
(* normalize_name and process_multiple_persons_text, views.py:666-748.     *)
(* A dict is the sequence of its items in insertion order.                 *)
(***************************************************************************)
FortsSuffix == <<" ","(","F","o","r","t","s",".",")">>

\* [a-zA-ZäöüÄÖÜß\s]
NameChars ==
    AsciiLetters \cup {"a_uml", "o_uml", "u_uml", "A_uml", "O_uml", "U_uml", "sz"}
    \cup SpaceChars

IsNameChar(c) == c \in NameChars

RECURSIVE name_chars_end(_, _)
name_chars_end(s, i) ==
    IF i <= Len(s) /\ IsNameChar(s[i]) THEN name_chars_end(s, i + 1) ELSE i

\* re.search(r'^([a-zA-ZäöüÄÖÜß\s]+,\s*[a-zA-ZäöüÄÖÜß\s]+)', line): group 1 or no match
name_match(line) ==
    With(name_chars_end(line, 1), LAMBDA j :
    With(name_chars_end(line, j + 1), LAMBDA k :
        IF j > 1 /\ CharAt(line, j, ",") /\ k > j + 1
        THEN <<SubSeq(line, 1, k - 1)>>
        ELSE NoMatch))

RECURSIVE spaces_end(_, _)
spaces_end(s, i) == IF i <= Len(s) /\ IsSpace(s[i]) THEN spaces_end(s, i + 1) ELSE i

\* re.sub(r'\s+', ' ', name)
RECURSIVE collapse_spaces(_, _)
collapse_spaces(s, i) ==
    IF i > Len(s) THEN <<>>
    ELSE IF IsSpace(s[i]) THEN <<" ">> \o collapse_spaces(s, spaces_end(s, i))
         ELSE <<s[i]>> \o collapse_spaces(s, i + 1)

\* re.sub(r'\s*,\s*', ', ', name)
RECURSIVE comma_spacing(_, _)
comma_spacing(s, i) ==
    IF i > Len(s) THEN <<>>
    ELSE With(spaces_end(s, i), LAMBDA w :
             IF CharAt(s, w, ",")
             THEN <<",", " ">> \o comma_spacing(s, spaces_end(s, w + 1))
             ELSE <<s[i]>> \o comma_spacing(s, i + 1))

clean_name(name) == comma_spacing(collapse_spaces(strip(name), 1), 1)

\* name.split(' (Forts.)')[0]
RECURSIVE before_suffix(_, _)
before_suffix(name, i) ==
    IF i > Len(name) THEN name
    ELSE IF OccursAt(name, FortsSuffix, i) THEN SubSeq(name, 1, i - 1)
         ELSE before_suffix(name, i + 1)

normalize_name(name) == before_suffix(name, 1)

keys(d) == {d[i].name : i \in DOMAIN d}
index_of(d, name) == CHOOSE i \in DOMAIN d : d[i].name = name
get(d, name) == d[index_of(d, name)].shifts

\* a continuation block that starts the person's list afresh
register_name_afresh(pd, name) ==
    IF name \in keys(pd)
    THEN [pd EXCEPT ![index_of(pd, name)].shifts = <<>>]
    ELSE Append(pd, [name |-> name, shifts |-> <<>>])

\* if current_name not in persons_data: persons_data[current_name] = []
register_name(pd, name) ==
    IF name \in keys(pd) THEN pd ELSE Append(pd, [name |-> name, shifts |-> <<>>])

\* persons_data[current_name].extend(processed_shifts)
extend(pd, name, processed_shifts) ==
    [pd EXCEPT ![index_of(pd, name)].shifts = @ \o processed_shifts]

\* text.strip().split("\n") on the sequence of lines: blank lines at either end
\* go, the first line loses its leading and the last its trailing white space
RECURSIVE drop_leading_blank(_)
drop_leading_blank(lines) ==
    IF lines # <<>> /\ strip(Head(lines)) = <<>> THEN drop_leading_blank(Tail(lines))
    ELSE lines

RECURSIVE drop_trailing_blank(_)
drop_trailing_blank(lines) ==
    IF lines # <<>> /\ strip(lines[Len(lines)]) = <<>>
    THEN drop_trailing_blank(SubSeq(lines, 1, Len(lines) - 1))
    ELSE lines

strip_split(lines) ==
    With(drop_trailing_blank(drop_leading_blank(lines)), LAMBDA kept :
        IF kept = <<>> THEN << <<>> >>
        ELSE With([kept EXCEPT ![1] = lstrip(@)], LAMBDA first :
                 [first EXCEPT ![Len(first)] = rstrip(@)]))

\* the for loop of views.py:718-740 from line i on, then the flush of 742-746;
\* current_name is <<>> for None, <<name>> otherwise
RECURSIVE segment(_, _, _, _, _)
segment(lines, i, pd, current_name, shift_data) ==
    IF i > Len(lines)
    THEN IF current_name # <<>> /\ shift_data # <<>>
         THEN extend(pd, current_name[1], process_extracted_text(shift_data))
         ELSE pd
    ELSE With(name_match(lines[i]), LAMBDA m :
             IF m # NoMatch
             THEN With(normalize_name(clean_name(m[1])), LAMBDA name :
                      LET flushed == IF current_name # <<>>
                                     THEN extend(pd, current_name[1],
                                                 process_extracted_text(shift_data))
                                     ELSE pd
                      IN  segment(lines, i + 1, register_name(flushed, name), <<name>>,
                                  IF current_name # <<>> THEN <<>> ELSE shift_data))
             ELSE IF current_name # <<>>
                  THEN segment(lines, i + 1, pd, current_name, Append(shift_data, lines[i]))
                  ELSE segment(lines, i + 1, pd, current_name, shift_data))

\* a segmenter that collects the lines before the first name line under a
\* person with the empty name
process_multiple_persons_text_anonymous(t) ==
    segment(strip_split(t), 1, <<[name |-> <<>>, shifts |-> <<>>]>>, << <<>> >>, <<>>)

process_multiple_persons_text(t) == segment(strip_split(t), 1, <<>>, <<>>, <<>>)

(***************************************************************************)
(* create_shift_statistics, views.py:751-772                               *)
(***************************************************************************)

\* Counter(shift["entry"] for shift in shifts): one increment per record
RECURSIVE Counter(_, _, _)
Counter(shs, i, counts) ==
    IF i > Len(shs) THEN counts
    ELSE LET e == shs[i].entry
         IN  Counter(shs, i + 1,
                     IF e \in DOMAIN counts THEN [counts EXCEPT ![e] = @ + 1]
                     ELSE [x \in DOMAIN counts \cup {e} |->
                              IF x = e THEN 1 ELSE counts[x]])

\* counts every record under one and the same code
statistics_of_lumped(shs) ==
    IF shs = <<>> THEN <<>> ELSE [x \in {shs[1].entry} |-> Len(shs)]

statistics_of(shs) == Counter(shs, 1, <<>>)

create_shift_statistics(pd) ==
    [i \in DOMAIN pd |-> [name |-> pd[i].name, counts |-> statistics_of(pd[i].shifts)]]

(***************************************************************************)
(* convert_shifts_to_ical, text_to_ical.py:6-61.                           *)
(* A datetime is [year, month, day, hour, minute] and, when aware, its     *)
(* utcoffset in minutes.  An exception that create_event catches makes it  *)
(* return None; any other one leaves convert_shifts_to_ical.               *)
(***************************************************************************)
tz_name == <<"Europe/Vienna">>

AllDigits(s) == \A i \in DOMAIN s : IsDigit(s[i])

RECURSIVE to_number(_)
to_number(s) ==
    IF s = <<>> THEN 0 ELSE 10 * to_number(SubSeq(s, 1, Len(s) - 1)) + DigitVal(s[Len(s)])

\* first index >= i at which the character c stands (Len+1 if none)
RECURSIVE find_char(_, _, _)
find_char(s, c, i) == IF i > Len(s) \/ s[i] = c THEN i ELSE find_char(s, c, i + 1)

\* str.split(sep) for a one-character separator
RECURSIVE split(_, _)
split(s, sep) ==
    With(find_char(s, sep, 1), LAMBDA j :
        IF j > Len(s) THEN <<s>>
        ELSE <<SubSeq(s, 1, j - 1)>> \o split(SubSeq(s, j + 1, Len(s)), sep))

UpperChars == Range(Upper)

ToLower(c) ==
    IF c \in UpperChars THEN Lower[CHOOSE i \in DOMAIN Upper : Upper[i] = c] ELSE c

lower(s) == [i \in DOMAIN s |-> ToLower(s[i])]

\* the %a names of the C locale; strptime compares them without regard to case
abbreviated_days ==
    { <<"m","o","n">>, <<"t","u","e">>, <<"w","e","d">>, <<"t","h","u">>,
      <<"f","r","i">>, <<"s","a","t">>, <<"s","u","n">> }

is_leap(y) == (y % 4 = 0 /\ y % 100 # 0) \/ y % 400 = 0

days_in_month(y, m) ==
    IF m = 2 THEN (IF is_leap(y) THEN 29 ELSE 28)
    ELSE IF m \in {4, 6, 9, 11} THEN 30 ELSE 31

RECURSIVE days_before_month(_, _)
days_before_month(y, m) ==
    IF m = 1 THEN 0 ELSE days_before_month(y, m - 1) + days_in_month(y, m - 1)

\* date.toordinal(): 0001-01-01 is day 1
toordinal(y, m, d) ==
    (y - 1) * 365 + (y - 1) \div 4 - (y - 1) \div 100 + (y - 1) \div 400
    + days_before_month(y, m) + d

min_ordinal == toordinal(1, 1, 1)
max_ordinal == toordinal(9999, 12, 31)

\* one or two digits that read as a number in lo..hi (%d, %m, %H, %M)
field_ok(s, lo, hi) ==
    Len(s) \in {1, 2} /\ AllDigits(s) /\ to_number(s) >= lo /\ to_number(s) <= hi

\* datetime.strptime(s, "%a. %d.%m.%Y"): <<date>>, or <<>> for ValueError
strptime_date(s) ==
    With(find_char(s, ".", 1), LAMBDA dot :
    With(spaces_end(s, dot + 1), LAMBDA from :
    With(split(SubSeq(s, from, Len(s)), "."), LAMBDA parts :
        IF /\ dot <= Len(s)
           /\ lower(SubSeq(s, 1, dot - 1)) \in abbreviated_days
           /\ from > dot + 1
           /\ Len(parts) = 3
           /\ field_ok(parts[1], 1, 31)
           /\ field_ok(parts[2], 1, 12)
           /\ Len(parts[3]) = 4 /\ AllDigits(parts[3])
           /\ to_number(parts[3]) >= 1
           /\ to_number(parts[1]) <= days_in_month(to_number(parts[3]), to_number(parts[2]))
        THEN <<[year |-> to_number(parts[3]), month |-> to_number(parts[2]),
                day |-> to_number(parts[1])]>>
        ELSE <<>>)))

\* datetime.strptime(s, "%H:%M").time(): <<time>>, or <<>> for ValueError
strptime_time(s) ==
    With(split(s, ":"), LAMBDA parts :
        IF Len(parts) = 2 /\ field_ok(parts[1], 0, 23) /\ field_ok(parts[2], 0, 59)
        THEN <<[hour |-> to_number(parts[1]), minute |-> to_number(parts[2])]>>
        ELSE <<>>)

\* the last Sunday of a 31-day month
last_sunday(y, m) == 31 - ((((toordinal(y, m, 31) + 6) % 7) + 1) % 7)

\* utcoffset, in minutes, that tz.localize (is_dst=False) gives a naive datetime in
\* Europe/Vienna under the EU rule in force from 1996 (summer time from the last
\* Sunday of March 02:00 CET to the last Sunday of October 03:00 CEST); a wall
\* time the clocks skip or repeat gets the standard offset.  pytz has no
\* transition after 2037.
localize_offset(y, m, d, minutes) ==
    LET spring == last_sunday(y, 3)
        fall == last_sunday(y, 10)
        started == m > 3 \/ (m = 3 /\ (d > spring \/ (d = spring /\ minutes >= 180)))
        not_ended == m < 10 \/ (m = 10 /\ (d < fall \/ (d = fall /\ minutes < 120)))
    IN  IF y >= 1996 /\ y <= 2037 /\ started /\ not_ended THEN 120 ELSE 60

\* tz.localize looks one day back and one day ahead of the datetime
localize_overflows(date) ==
    toordinal(date.year, date.month, date.day) \in {min_ordinal, max_ordinal}

\* tz.localize(datetime.combine(start_date, t))
localize(date, t) ==
    [year |-> date.year, month |-> date.month, day |-> date.day,
     hour |-> t.hour, minute |-> t.minute,
     utcoffset |-> localize_offset(date.year, date.month, date.day,
                                   60 * t.hour + t.minute)]

\* strptime(...).replace(tzinfo=tz): midnight of the date with the offset of the
\* zone object itself, which for pytz is the zone's local mean time (+01:05)
replace_tzinfo(date) ==
    [year |-> date.year, month |-> date.month, day |-> date.day,
     hour |-> 0, minute |-> 0, utcoffset |-> 65]

\* minutes from the instant a to the instant b (aware datetimes)
minutes_between(a, b) ==
    (toordinal(b.year, b.month, b.day) - toordinal(a.year, a.month, a.day)) * 1440
    + (60 * b.hour + b.minute - b.utcoffset) - (60 * a.hour + a.minute - a.utcoffset)

\* the calendar day after (y, m, d)
next_day(dt) ==
    IF dt.day < days_in_month(dt.year, dt.month) THEN [dt EXCEPT !.day = @ + 1]
    ELSE IF dt.month < 12 THEN [dt EXCEPT !.day = 1, !.month = @ + 1]
    ELSE [dt EXCEPT !.day = 1, !.month = 1, !.year = @ + 1]

Returned(e) == [kind |-> "event", event |-> e]
ReturnedNone == [kind |-> "None"]
Raised(exc) == [kind |-> "raise", exc |-> exc]

required == {"date", "entry", "all_day"}

\* text_to_ical.py:40-47 for a parsed date and two parsed times
timed_event_of(shift, start_date, start_time, end_time) ==
    IF localize_overflows(start_date) THEN Raised("OverflowError")
    ELSE With(localize(start_date, start_time), LAMBDA start_datetime :
         With(localize(start_date, end_time), LAMBDA end_datetime :
             IF minutes_between(start_datetime, end_datetime) >= 0
             THEN Returned([name |-> shift.entry, all_day |-> FALSE,
                            begin |-> start_datetime, end |-> end_datetime])
             ELSE IF toordinal(start_date.year, start_date.month, start_date.day)
                         = max_ordinal
                  THEN Raised("OverflowError")
                  ELSE Returned([name |-> shift.entry, all_day |-> FALSE,
                                 begin |-> start_datetime,
                                 end |-> next_day(end_datetime)])))

\* the else branch of create_event (text_to_ical.py:36-47) for a parsed date
timed_event(shift, start_date) ==
    With(split(shift.shift_time, "-"), LAMBDA times :
        IF Len(times) # 2 THEN ReturnedNone
        ELSE With(strptime_time(times[1]), LAMBDA start_time :
                 IF start_time = <<>> THEN ReturnedNone
                 ELSE With(strptime_time(times[2]), LAMBDA end_time :
                          IF end_time = <<>> THEN ReturnedNone
                          ELSE timed_event_of(shift, start_date, start_time[1],
                                              end_time[1]))))

\* create_event, text_to_ical.py:24-52
create_event(shift) ==
    IF ~(required \subseteq DOMAIN shift) THEN ReturnedNone        \* KeyError
    ELSE With(strptime_date(shift.date), LAMBDA start_date :
             IF start_date = <<>> THEN ReturnedNone                \* ValueError
             ELSE IF shift.all_day
                  THEN Returned([name |-> shift.entry, all_day |-> TRUE,
                                 begin |-> replace_tzinfo(start_date[1])])
                  ELSE IF "shift_time" \notin DOMAIN shift THEN ReturnedNone
                       ELSE timed_event(shift, start_date[1]))

\* the loop of text_to_ical.py:55-59 from record i on; created keeps what each
\* create_event call gave, in call order
RECURSIVE add_events(_, _, _, _)
add_events(shs, i, events, created) ==
    IF i > Len(shs) THEN [kind |-> "calendar", events |-> events, created |-> created]
    ELSE With(create_event(shs[i]), LAMBDA r :
             IF r.kind = "raise"
             THEN [kind |-> "raise", exc |-> r.exc, created |-> Append(created, r)]
             ELSE add_events(shs, i + 1,
                             IF r.kind = "event" THEN Append(events, r.event) ELSE events,
                             Append(created, r)))

RECURSIVE concat(_)
concat(lists) == IF lists = <<>> THEN <<>> ELSE Head(lists) \o concat(Tail(lists))

\* a convert_shifts_to_ical that goes on with the zone although it is not available
convert_shifts_to_ical_unchecked(shift_lists, timezones) ==
    add_events(concat(shift_lists), 1, <<>>, <<>>)

\* convert_shifts_to_ical, text_to_ical.py:6-61: the calendar that is serialized,
\* or the exception that leaves the function
convert_shifts_to_ical(shift_lists, timezones) ==
    IF tz_name \notin timezones
    THEN [kind |-> "raise", exc |-> "ValueError", created |-> <<>>]
    ELSE add_events(concat(shift_lists), 1, <<>>, <<>>)

(***************************************************************************)
(* create_ical_contents and process_text_and_generate_stats,               *)
(* views.py:364-466                                                        *)
(***************************************************************************)

\* the loop of views.py:426-433 from person i on
RECURSIVE ical_for_persons(_, _, _, _)
ical_for_persons(pd, timezones, i, contents) ==
    IF i > Len(pd) THEN [value |-> Some(contents), logged |-> <<>>]
    ELSE With(convert_shifts_to_ical(<<pd[i].shifts>>, timezones), LAMBDA made :
             IF made.kind = "raise"
             THEN [value |-> None,
                   logged |-> <<"An error occurred while generating iCal contents">>]
             ELSE ical_for_persons(pd, timezones, i + 1,
                                   Append(contents, [name |-> pd[i].name,
                                                     ical_data |-> made])))

\* create_ical_contents: None or the dict, and what it logged
create_ical_contents(pd, timezones) ==
    IF pd = <<>> THEN [value |-> None, logged |-> <<>>]
    ELSE ical_for_persons(pd, timezones, 1, <<>>)

(***************************************************************************)
(* The texts handed to the conversion: up to MaxLines lines, each one of   *)
(* the lines of LinePool.                                                  *)
(***************************************************************************)
MaxLines == 4

NameMax == <<"M","u","s","t","e","r","m","a","n","n",","," ","M","a","x">>
NameMaxForts == NameMax \o FortsSuffix
NameDoe == <<"D","o","e",","," ","J","o">>
RegularLine ==
    <<"M","o","."," ","0","1",".","0","1",".","2","0","2","4"," ",
      "0","8",":","0","0","-","1","6",":","0","0"," ","8",",","0","0",
      "T","R","A","I","N"," ","8","-","1","6">>
AllDayLine ==
    <<"D","i","."," ","0","2",".","0","1",".","2","0","2","4"," ">> \o Ganztaegig
    \o <<" ","8",",","0","0","I","L","L","0">>
\* 31 February: the line parses, the date does not
BadDateLine ==
    <<"M","i","."," ","3","1",".","0","2",".","2","0","2","4"," ",
      "0","8",":","0","0","-","1","6",":","0","0"," ","8",",","0","0","T","R","A","I","N">>
\* a night shift on the last day datetime can hold
LastDayLine ==
    <<"F","r","."," ","3","1",".","1","2",".","9","9","9","9"," ",
      "2","2",":","0","0","-","0","6",":","0","0"," ","8",",","0","0","N">>
OtherLine == Zeitraum \o <<" ","0","1",".","0","1",".","2","0","2","4">>

LinePool ==
    {NameMax, NameMaxForts, NameDoe, RegularLine, AllDayLine, BadDateLine, OtherLine}

RECURSIVE SeqsUpTo(_, _)
SeqsUpTo(pool, n) ==
    IF n = 0 THEN {<<>>}
    ELSE With(SeqsUpTo(pool, n - 1), LAMBDA shorter :
             shorter \cup {Append(q, x) : q \in shorter, x \in pool})

Texts == SeqsUpTo(LinePool, MaxLines)

\* pytz.all_timezones of an installation that has the zone, and of one that lacks it
WithVienna == {<<"Europe/Vienna">>, <<"UTC">>}
WithoutVienna == {<<"UTC">>}
TimezoneSets == {WithVienna, WithoutVienna}

\* process_text_and_generate_stats(extracted_text), views.py:364-404, with
\* save_ical_to_tempfile, views.py:442-466: the values of its locals when it
\* returns, what it logged, and what the session's temporary file then holds
process_text_and_generate_stats(extracted_text, timezones, old_temp_file) ==
    With(process_multiple_persons_text(extracted_text), LAMBDA pd :
    With(create_ical_contents(pd, timezones), LAMBDA made :
        [persons_data  |-> Some(pd),
         stats         |-> Some(create_shift_statistics(pd)),
         ical_contents |-> made.value,
         temp_file     |-> IF made.value # None THEN made.value ELSE old_temp_file,
         logged        |-> made.logged \o
                           (IF made.value = None
                            THEN <<"An error occurred: Failed to create iCal contents.">>
                            ELSE <<>>)]))

(***************************************************************************)
(* The files of the installation.  A path is a string; the file system     *)
(* knows a file by the components of its path.                             *)
(***************************************************************************)
TEMP_DIR == <<"/","t","m","p","/">>
ZIP_EXTENSION == <<".","z","i","p">>

\* tempfile.gettempdir()
gettempdir == <<"/","t","m","p">>

\* the path without empty components: "/tmp//tmp/x" is "/tmp/tmp/x"
RECURSIVE join_components(_)
join_components(parts) ==
    IF parts = <<>> THEN <<>> ELSE <<"/">> \o Head(parts) \o join_components(Tail(parts))

components(path) == SelectSeq(split(path, "/"), LAMBDA part : part # <<>>)

normpath(path) == join_components(components(path))

dirname(path) ==
    With(components(path), LAMBDA parts : join_components(SubSeq(parts, 1, Len(parts) - 1)))

\* the k-th name the tempfile module hands out: a name no file has yet
tempname(k, suffix) == gettempdir \o <<"/","t","m","p">> \o <<Digits[k + 1]>> \o suffix

\* the files after a write of data to path
written(fs, path, data) ==
    [p \in DOMAIN fs \cup {normpath(path)} |-> IF p = normpath(path) THEN data ELSE fs[p]]

\* save_ical_to_tempfile(ical_contents), views.py:442-466, for the dict that
\* create_ical_contents returned: the session and the files after it
save_ical_to_tempfile(contents, sess, fs, names) ==
    IF contents = <<>>
    THEN [session |-> sess, files |-> fs, tempnames |-> names,
          logged |-> <<"An error occurred while saving the temporary iCal file">>]
    ELSE With(tempname(names + 1, <<>>), LAMBDA name :
             [session |-> [sess EXCEPT !.temp_filename = Some(name)],
              files |-> written(fs, name, [kind |-> "pickle", data |-> contents]),
              tempnames |-> names + 1,
              logged |-> <<>>])

Init ==
    /\ text \in Texts
    /\ all_timezones = WithVienna
    /\ persons_data = None /\ stats = None /\ ical_contents = None
    /\ temp_file = None /\ flashes = <<>> /\ logged = <<>> /\ pc = "start"
    /\ SessionFresh /\ directories = {gettempdir}
    /\ NormalizeIdle /\ WeekdayIdle /\ EncodeIdle

\* home() hands the extracted text to process_text_and_generate_stats
Convert ==
    /\ pc = "start"
    /\ \E r \in {process_text_and_generate_stats(text, all_timezones, temp_file)} :
           /\ persons_data' = r.persons_data
           /\ stats' = r.stats
           /\ ical_contents' = r.ical_contents
           /\ temp_file' = r.temp_file
           /\ \E saved \in {IF r.ical_contents # None
                             THEN save_ical_to_tempfile(r.ical_contents[1], session, files,
                                                        tempnames)
                             ELSE [session |-> session, files |-> files,
                                   tempnames |-> tempnames, logged |-> <<>>]} :
                  /\ session' = saved.session
                  /\ files' = saved.files
                  /\ tempnames' = saved.tempnames
                  /\ logged' = logged \o r.logged \o saved.logged
    /\ pc' = "returned"
    /\ response' = [handler |-> "home", kind |-> "render_template"]
    /\ UNCHANGED <<text, all_timezones, flashes, normalize_vars, weekday_vars,
                   encode_vars, directories, zip_path, requests>>

Next == Convert

Spec == Init /\ [][Next]_vars

(***************************************************************************)
(* The same conversion for texts that also hold a record of the last day   *)
(* a datetime can hold, on an installation that may lack the zone.         *)
(***************************************************************************)
MaxRecordLines == 3

RecordLinePool == {NameMax, NameDoe, RegularLine, BadDateLine, LastDayLine}

InitRecords ==
    /\ text \in SeqsUpTo(RecordLinePool, MaxRecordLines)
    /\ all_timezones \in TimezoneSets
    /\ persons_data = None /\ stats = None /\ ical_contents = None
    /\ temp_file = None /\ flashes = <<>> /\ logged = <<>> /\ pc = "start"
    /\ SessionFresh /\ directories = {gettempdir}
    /\ NormalizeIdle /\ WeekdayIdle /\ EncodeIdle

SpecRecords == InitRecords /\ [][Next]_vars

(***************************************************************************)
(* convert_shifts_to_ical on its own: one person's records, up to          *)
(* MaxShifts of them, each one of ShiftPool.                               *)
(***************************************************************************)
MaxShifts == 2

ShiftRecord(date, shift_time, all_day) ==
    [date |-> date, shift_time |-> shift_time, hours |-> <<"8",",","0","0">>,
     entry |-> <<"N">>, all_day |-> all_day]

Monday == <<"M","o","n","."," ","0","1",".","0","1",".","2","0","2","4">>
\* the Sunday the clocks go forward from 02:00 to 03:00
SpringSunday == <<"S","u","n","."," ","3","1",".","0","3",".","2","0","2","4">>
\* the Sunday the clocks go back from 03:00 to 02:00
AutumnSunday == <<"S","u","n","."," ","2","7",".","1","0",".","2","0","2","4">>
NoSuchDay == <<"W","e","d","."," ","3","1",".","0","2",".","2","0","2","4">>
LastDay == <<"F","r","i","."," ","3","1",".","1","2",".","9","9","9","9">>

Clock(h1, h2, m1, m2) == <<h1, h2, ":", m1, m2>>
Span(from, to) == from \o <<"-">> \o to

ShiftPool ==
    { ShiftRecord(Monday, Span(Clock("0","8","0","0"), Clock("1","6","0","0")), FALSE),
      ShiftRecord(Monday, Span(Clock("2","2","0","0"), Clock("0","6","0","0")), FALSE),
      ShiftRecord(Monday, Span(Clock("0","8","0","0"), Clock("0","8","0","0")), FALSE),
      ShiftRecord(SpringSunday, Span(Clock("0","3","0","0"), Clock("0","2","3","0")), FALSE),
      ShiftRecord(SpringSunday, Span(Clock("0","2","3","0"), Clock("0","3","0","0")), FALSE),
      ShiftRecord(AutumnSunday, Span(Clock("0","2","3","0"), Clock("0","1","3","0")), FALSE),
      ShiftRecord(NoSuchDay, Span(Clock("0","8","0","0"), Clock("1","6","0","0")), FALSE),
      ShiftRecord(Monday, Span(Clock("0","8","0","0"), Clock("2","4","0","0")), FALSE),
      ShiftRecord(Monday, Clock("0","8","0","0"), FALSE),
      ShiftRecord(Monday, AllDay, TRUE),
      [date |-> Monday, shift_time |-> AllDay, hours |-> <<"8",",","0","0">>,
       all_day |-> TRUE],
      ShiftRecord(LastDay, Span(Clock("2","2","0","0"), Clock("0","6","0","0")), FALSE) }

InitEncode ==
    /\ shifts \in SeqsUpTo(ShiftPool, MaxShifts)
    /\ all_timezones \in TimezoneSets
    /\ ical_data = None
    /\ PipelineIdle /\ NormalizeIdle /\ WeekdayIdle /\ SessionIdle

\* ical_data = convert_shifts_to_ical([shifts]), views.py:428
Encode ==
    /\ ical_data = None
    /\ ical_data' = Some(convert_shifts_to_ical(<<shifts>>, all_timezones))
    /\ UNCHANGED <<all_timezones, shifts, pipeline_vars, normalize_vars, weekday_vars,
                   session_vars>>

NextEncode == Encode

SpecEncode == InitEncode /\ [][NextEncode]_vars

(***************************************************************************)
(* Properties of the segmenter and of the statistics, under Spec.          *)
(***************************************************************************)
IsNameLine(line) == name_match(line) # NoMatch

NameOf(line) == normalize_name(clean_name(name_match(line)[1]))

\* the lines from i on that are no name lines and whose nearest name line before
\* them is one of person X; owner is <<>> or <<the person of that name line>>
RECURSIVE lines_of(_, _, _, _)
lines_of(lines, i, X, owner) ==
    IF i > Len(lines) THEN <<>>
    ELSE IF IsNameLine(lines[i]) THEN lines_of(lines, i + 1, X, <<NameOf(lines[i])>>)
    ELSE (IF owner = <<X>> THEN <<lines[i]>> ELSE <<>>) \o lines_of(lines, i + 1, X, owner)

\* C1: a name line and a later name line with " (Forts.)" give one key; the
\* person's records are those of all its blocks, in line order: no key stands
\* twice, and each key holds the records of exactly the lines under its name lines.
C1_continuation_merge ==
    pc = "returned" =>
        LET pd == persons_data[1]
            lines == strip_split(text)
        IN  /\ \A i, j \in DOMAIN pd : pd[i].name = pd[j].name => i = j
            /\ \A i \in DOMAIN lines :
                   IsNameLine(lines[i]) =>
                       /\ NameOf(lines[i]) \in keys(pd)
                       /\ NameOf(lines[i] \o FortsSuffix) = NameOf(lines[i])
            /\ \A i \in DOMAIN pd :
                   pd[i].shifts
                       = process_extracted_text(lines_of(lines, 1, pd[i].name, <<>>))

C1_witness ==
    /\ pc = "returned"
    /\ text = <<NameMax, RegularLine, NameMaxForts, AllDayLine>>
    /\ keys(persons_data[1]) = {NameMax}
    /\ [k \in 1..2 |-> persons_data[1][1].shifts[k].entry]
           = << <<"T","R","A","I","N">>, <<"I","L","L">> >>

CountOf(shs, e) == Cardinality({k \in DOMAIN shs : shs[k].entry = e})

RECURSIVE Sum(_, _)
Sum(f, S) ==
    IF S = {} THEN 0
    ELSE LET x == CHOOSE y \in S : TRUE IN f[x] + Sum(f, S \ {x})

\* C8: the statistics hold the persons of persons_data, in order; a person's
\* table has exactly the entry codes of its records, each with the number of
\* records that carry it, whatever their date, shift_time and hours; the counts
\* add up to the number of records.
C8_statistics_counts ==
    pc = "returned" =>
        LET pd == persons_data[1]
            st == stats[1]
        IN  /\ Len(st) = Len(pd)
            /\ \A i \in DOMAIN pd :
                   /\ st[i].name = pd[i].name
                   /\ DOMAIN st[i].counts
                          = {pd[i].shifts[k].entry : k \in DOMAIN pd[i].shifts}
                   /\ \A e \in DOMAIN st[i].counts :
                          st[i].counts[e] = CountOf(pd[i].shifts, e)
                   /\ Sum(st[i].counts, DOMAIN st[i].counts) = Len(pd[i].shifts)

\* a person with two records of one code on different dates, and a record of another
C8_witness ==
    /\ pc = "returned"
    /\ \E i \in DOMAIN persons_data[1] :
           LET shs == persons_data[1][i].shifts
           IN  /\ \E a, b, c \in DOMAIN shs :
                      /\ shs[a].entry = shs[b].entry /\ shs[a].date # shs[b].date
                      /\ shs[c].entry # shs[a].entry
               /\ stats[1][i].counts[<<"T","R","A","I","N">>] = 2
               /\ stats[1][i].counts[<<"I","L","L">>] = 1

ExampleText == <<NameMax, RegularLine, AllDayLine>>

\* C9: the example text gives the one person "Mustermann, Max" with the two
\* records of the example in order (the all-day one carries the "All Day"
\* marker as shift_time), the statistics TRAIN: 1, ILL: 1 and, where the zone is
\* available, a calendar of one timed event 08:00-16:00 local time on
\* 01.01.2024 and one all-day event on 02.01.2024.
C9_end_to_end ==
    pc = "returned" /\ text = ExampleText =>
        /\ persons_data =
               Some(<<[name |-> NameMax,
                       shifts |->
                           <<[date |-> <<"M","o","n","."," ","0","1",".","0","1",
                                         ".","2","0","2","4">>,
                              shift_time |-> <<"0","8",":","0","0","-","1","6",":","0","0">>,
                              hours |-> <<"8",",","0","0">>,
                              entry |-> <<"T","R","A","I","N">>,
                              all_day |-> FALSE],
                             [date |-> <<"T","u","e","."," ","0","2",".","0","1",
                                         ".","2","0","2","4">>,
                              shift_time |-> AllDay,
                              hours |-> <<"8",",","0","0">>,
                              entry |-> <<"I","L","L">>,
                              all_day |-> TRUE]>>]>>)
        /\ Len(stats[1]) = 1
        /\ stats[1][1].name = NameMax
        /\ DOMAIN stats[1][1].counts = {<<"T","R","A","I","N">>, <<"I","L","L">>}
        /\ \A e \in DOMAIN stats[1][1].counts : stats[1][1].counts[e] = 1
        /\ tz_name \in all_timezones =>
               /\ ical_contents # None
               /\ Len(ical_contents[1]) = 1
               /\ ical_contents[1][1].name = NameMax
               /\ ical_contents[1][1].ical_data.kind = "calendar"
               /\ LET events == ical_contents[1][1].ical_data.events
                  IN  /\ Len(events) = 2
                      /\ events[1] =
                             [name |-> <<"T","R","A","I","N">>, all_day |-> FALSE,
                              begin |-> [year |-> 2024, month |-> 1, day |-> 1,
                                         hour |-> 8, minute |-> 0, utcoffset |-> 60],
                              end |-> [year |-> 2024, month |-> 1, day |-> 1,
                                       hour |-> 16, minute |-> 0, utcoffset |-> 60]]
                      /\ events[2].name = <<"I","L","L">>
                      /\ events[2].all_day
                      /\ <<events[2].begin.year, events[2].begin.month,
                           events[2].begin.day>> = <<2024, 1, 2>>

C9_witness ==
    /\ pc = "returned"
    /\ text = ExampleText
    /\ tz_name \in all_timezones
    /\ ical_contents # None
    /\ Len(persons_data[1][1].shifts) = 2

(***************************************************************************)
(* Properties of the failure paths of the conversion.                      *)
(***************************************************************************)

\* the encoder was called and found its zone missing
ConfigurationFailed ==
    /\ persons_data # None
    /\ persons_data[1] # <<>>
    /\ tz_name \notin all_timezones

\* what tells the caller of the conversion that it failed: a None in the
\* returned pair or a flashed message
FailureOutcome == persons_data = None \/ stats = None \/ flashes # <<>>

\* C6: with the zone available, records that create_event gives up on (it
\* returns None for them) cost no calendar and give no failure outcome; when the
\* encoder finds its zone missing, the caller gets a failure outcome.
C6_configuration_failure_surfaces ==
    pc = "returned" =>
        /\ /\ tz_name \in all_timezones
           /\ persons_data[1] # <<>>
           /\ \A i \in DOMAIN persons_data[1] :
                  \A k \in DOMAIN persons_data[1][i].shifts :
                      create_event(persons_data[1][i].shifts[k]).kind # "raise"
           => ical_contents # None /\ ~FailureOutcome
        /\ ConfigurationFailed => FailureOutcome

\* C7: with the zone available, every person of a name line is a key of
\* persons_data and create_ical_contents gives exactly one calendar per key.
C7_one_calendar_per_person ==
    pc = "returned" /\ tz_name \in all_timezones
    /\ (\E i \in DOMAIN text : IsNameLine(text[i])) =>
        LET pd == persons_data[1]
            lines == strip_split(text)
        IN  /\ keys(pd) = {NameOf(lines[i]) : i \in {k \in DOMAIN lines : IsNameLine(lines[k])}}
            /\ ical_contents # None
            /\ Len(ical_contents[1]) = Len(pd)
            /\ \A i \in DOMAIN pd :
                   /\ ical_contents[1][i].name = pd[i].name
                   /\ ical_contents[1][i].ical_data.kind = "calendar"

(***************************************************************************)
(* Properties of the encoder, under SpecEncode.                            *)
(***************************************************************************)

\* a record create_event gives up on: a required field is missing, the date does
\* not parse, or shift_time is not two HH:MM tokens around one "-"
Malformed(shift) ==
    \/ ~(required \subseteq DOMAIN shift)
    \/ strptime_date(shift.date) = <<>>
    \/ /\ ~shift.all_day
       /\ \/ "shift_time" \notin DOMAIN shift
          \/ LET times == split(shift.shift_time, "-")
             IN  \/ Len(times) # 2
                 \/ strptime_time(times[1]) = <<>>
                 \/ strptime_time(times[2]) = <<>>

wall_minutes(t) == 60 * t.hour + t.minute

\* C3: a timed record of date D and shift_time S-E that becomes an event starts
\* at S on D; it ends at E on the day after D when E is earlier than S, and at
\* E on D otherwise; the end is not before the start and less than 24 hours
\* after it.
C3_overnight_wrap ==
    ical_data # None /\ ical_data[1].kind = "calendar" =>
        \A i \in DOMAIN shifts :
            ical_data[1].created[i].kind = "event" /\ ~shifts[i].all_day =>
                LET ev == ical_data[1].created[i].event
                    D == strptime_date(shifts[i].date)[1]
                    times == split(shifts[i].shift_time, "-")
                    S == strptime_time(times[1])[1]
                    E == strptime_time(times[2])[1]
                    end_day == IF wall_minutes(E) < wall_minutes(S)
                               THEN next_day(D) ELSE D
                IN  /\ <<ev.begin.year, ev.begin.month, ev.begin.day>>
                           = <<D.year, D.month, D.day>>
                    /\ wall_minutes(ev.begin) = wall_minutes(S)
                    /\ <<ev.end.year, ev.end.month, ev.end.day>>
                           = <<end_day.year, end_day.month, end_day.day>>
                    /\ wall_minutes(ev.end) = wall_minutes(E)
                    /\ minutes_between(ev.begin, ev.end) >= 0
                    /\ minutes_between(ev.begin, ev.end) < 1440

\* C4: with the zone available the encode call gives a calendar whatever the
\* records are; a malformed record is dropped and every other record gives its
\* event.
C4_bad_records_dropped ==
    ical_data # None /\ tz_name \in all_timezones =>
        /\ ical_data[1].kind = "calendar"
        /\ Len(ical_data[1].created) = Len(shifts)
        /\ \A i \in DOMAIN shifts :
               ical_data[1].created[i].kind
                   = IF Malformed(shifts[i]) THEN "None" ELSE "event"

\* C5: when the zone of the encoder is not among the available ones the call
\* raises ValueError before create_event is called for any record, and gives
\* no calendar.
C5_unknown_timezone_fails ==
    ical_data # None /\ tz_name \notin all_timezones =>
        /\ ical_data[1].kind = "raise"
        /\ ical_data[1].exc = "ValueError"
        /\ ical_data[1].created = <<>>

C5_witness ==
    /\ ical_data # None
    /\ tz_name \notin all_timezones
    /\ Len(shifts) = MaxShifts
    /\ \A i \in DOMAIN shifts : ~Malformed(shifts[i])
    /\ ical_data[1].kind = "raise"

\* C11: an all-day record of date D that has its fields gives an event whose
\* summary is the entry, that is marked full-day, has no end, and begins at
\* 00:00 on D at the instant of midnight of D in the zone of the encoder.
C11_all_day_event ==
    ical_data # None /\ ical_data[1].kind = "calendar" =>
        \A i \in DOMAIN shifts :
            /\ required \subseteq DOMAIN shifts[i]
            /\ shifts[i].all_day
            /\ strptime_date(shifts[i].date) # <<>>
            => LET r == ical_data[1].created[i]
                   D == strptime_date(shifts[i].date)[1]
               IN  /\ r.kind = "event"
                   /\ r.event.name = shifts[i].entry
                   /\ r.event.all_day
                   /\ "end" \notin DOMAIN r.event
                   /\ <<r.event.begin.year, r.event.begin.month, r.event.begin.day>>
                          = <<D.year, D.month, D.day>>
                   /\ r.event.begin.hour = 0 /\ r.event.begin.minute = 0
                   /\ r.event.begin.utcoffset
                          = localize_offset(D.year, D.month, D.day, 0)

(***************************************************************************)
(* The same conversion for texts whose lines put the two line shapes and   *)
(* the name pattern side by side.                                          *)
(***************************************************************************)
MaxParseLines == 3

\* a name and, after it on the same line, a timed shift
NameShiftLine == NameDoe \o <<" ">> \o RegularLine
\* an all-day shift and, after it on the same line, a timed shift
BothLine == AllDayLine \o <<" ">> \o RegularLine

ParseLinePool == {NameMax, NameMaxForts, NameShiftLine, RegularLine, AllDayLine, BothLine,
                  OtherLine}

InitLines ==
    /\ text \in SeqsUpTo(ParseLinePool, MaxParseLines)
    /\ all_timezones = WithVienna
    /\ persons_data = None /\ stats = None /\ ical_contents = None
    /\ temp_file = None /\ flashes = <<>> /\ logged = <<>> /\ pc = "start"
    /\ SessionFresh /\ directories = {gettempdir}
    /\ NormalizeIdle /\ WeekdayIdle /\ EncodeIdle

SpecLines == InitLines /\ [][Next]_vars

(***************************************************************************)
(* Properties of the segmenter and of the line parser, under SpecLines.    *)
(***************************************************************************)
HasDigit(line) == \E i \in DOMAIN line : IsDigit(line[i])

\* letters and spaces, a comma, letters and spaces, and after them nothing or
\* the continuation marker
NameForm(line) ==
    /\ ~HasDigit(line)
    /\ name_match(line) # NoMatch
    /\ SubSeq(line, Len(name_match(line)[1]) + 1, Len(line))
           \in {<<>>, <<"(","F","o","r","t","s",".",")">>}

\* lines_of for the lines that have the name form
RECURSIVE form_lines_of(_, _, _, _)
form_lines_of(lines, i, X, owner) ==
    IF i > Len(lines) THEN <<>>
    ELSE IF NameForm(lines[i]) THEN form_lines_of(lines, i + 1, X, <<NameOf(lines[i])>>)
    ELSE (IF owner = <<X>> THEN <<lines[i]>> ELSE <<>>)
         \o form_lines_of(lines, i + 1, X, owner)

\* C14: a line is taken for a name line only when it has the name form; a line
\* with a digit is no name line; the persons are those of the lines of the name
\* form, and every other line that follows one of them gives its record, if it
\* holds a shift, to the person of the nearest such line before it.
C14_name_line_classification ==
    pc = "returned" =>
        LET pd == persons_data[1]
            lines == strip_split(text)
        IN  /\ \A i \in DOMAIN lines :
                   /\ IsNameLine(lines[i]) => NameForm(lines[i])
                   /\ HasDigit(lines[i]) => ~IsNameLine(lines[i])
            /\ keys(pd) = {NameOf(lines[i]) : i \in {k \in DOMAIN lines : NameForm(lines[k])}}
            /\ \A i \in DOMAIN pd :
                   pd[i].shifts
                       = process_extracted_text(form_lines_of(lines, 1, pd[i].name, <<>>))

\* index of the first name line of lines (Len+1 if there is none)
RECURSIVE first_name_line(_, _)
first_name_line(lines, i) ==
    IF i > Len(lines) \/ IsNameLine(lines[i]) THEN i ELSE first_name_line(lines, i + 1)

\* the lines after the first name line that are no name lines
lines_after_first_name(lines) ==
    SelectSeq(SubSeq(lines, first_name_line(lines, 1) + 1, Len(lines)),
              LAMBDA l : ~IsNameLine(l))

\* C15: the conversion returns a PersonShiftSet for every text; the records of
\* all persons together are as many as, and are among, the records of the
\* non-name lines after the first name line, so a line before it gives none;
\* a text with no name line gives the empty PersonShiftSet.
C15_leading_lines_dropped ==
    pc = "returned" =>
        LET lines == strip_split(text)
            kept == process_extracted_text(lines_after_first_name(lines))
        IN  /\ persons_data # None
            /\ Len(concat([i \in DOMAIN persons_data[1] |-> persons_data[1][i].shifts]))
                   = Len(kept)
            /\ \A i \in DOMAIN persons_data[1] :
                   Range(persons_data[1][i].shifts) \subseteq Range(kept)
            /\ (\A i \in DOMAIN lines : ~IsNameLine(lines[i])) => persons_data = Some(<<>>)

\* a timed shift before the first name line, an all-day shift after it
C15_witness ==
    /\ pc = "returned"
    /\ text = <<RegularLine, NameMax, AllDayLine>>
    /\ Len(persons_data[1]) = 1
    /\ Len(persons_data[1][1].shifts) = 1
    /\ persons_data[1][1].shifts[1].entry = <<"I","L","L">>

\* the match the two shapes give a line when the regular one is tried first
first_shape_match(line) ==
    IF search_regular(line, 1) # NoMatch THEN search_regular(line, 1)
    ELSE search_all_day(line, 1)

\* C16: a line gives a record exactly when one of the two shapes matches it
\* somewhere, and the record is the one of the regular match whenever the
\* regular shape matches, also when the all-day shape matches too or earlier
\* in the line; a line that neither shape matches gives no record.
C16_regular_shape_first ==
    pc = "returned" =>
        LET lines == strip_split(text)
        IN  \A i \in DOMAIN persons_data[1] :
                LET own == lines_of(lines, 1, persons_data[1][i].name, <<>>)
                    matched == SelectSeq(own, LAMBDA l : \/ search_regular(l, 1) # NoMatch
                                                         \/ search_all_day(l, 1) # NoMatch)
                    shs == persons_data[1][i].shifts
                IN  /\ Len(shs) = Len(matched)
                    /\ \A k \in DOMAIN shs :
                           /\ shs[k] = shift_of(first_shape_match(matched[k])[1])
                           /\ search_regular(matched[k], 1) # NoMatch =>
                                  /\ shs[k].shift_time = search_regular(matched[k], 1)[1].time
                                  /\ shs[k].hours = search_regular(matched[k], 1)[1].hours
                                  /\ ~shs[k].all_day

\* a line that both shapes match, the all-day one earlier: the record is the
\* timed one of the later date; the line that no shape matches gave nothing
C16_witness ==
    /\ pc = "returned"
    /\ text = <<NameMax, BothLine, OtherLine>>
    /\ search_all_day(BothLine, 1) # NoMatch
    /\ Len(persons_data[1][1].shifts) = 1
    /\ persons_data[1][1].shifts[1].date
           = <<"M","o","n","."," ","0","1",".","0","1",".","2","0","2","4">>
    /\ persons_data[1][1].shifts[1].entry = <<"T","R","A","I","N">>
    /\ ~persons_data[1][1].shifts[1].all_day

\* C17: of every record, all_day is true exactly when its line gave the match
\* of the all-day shape, and then shift_time is the "All Day" marker; all_day
\* is false exactly when its line gave the match of the regular shape, and then
\* shift_time is the captured time, of the form HH:MM-HH:MM; no record has
\* all_day with a time range or the marker without all_day.
C17_all_day_flag_and_marker ==
    pc = "returned" =>
        LET lines == strip_split(text)
        IN  \A i \in DOMAIN persons_data[1] :
                LET own == lines_of(lines, 1, persons_data[1][i].name, <<>>)
                    matched == SelectSeq(own, LAMBDA l : process_line(l) # NoMatch)
                    shs == persons_data[1][i].shifts
                IN  /\ Len(shs) = Len(matched)
                    /\ \A k \in DOMAIN shs :
                           LET regular == search_regular(matched[k], 1)
                           IN  /\ shs[k].all_day \in BOOLEAN
                               /\ shs[k].all_day <=> regular = NoMatch
                               /\ shs[k].all_day <=> shs[k].shift_time = AllDay
                               /\ ~shs[k].all_day =>
                                      /\ shs[k].shift_time = regular[1].time
                                      /\ time_match_end(shs[k].shift_time, 1)
                                             = Len(shs[k].shift_time) + 1

\* a person with a record of each kind
C17_witness ==
    /\ pc = "returned"
    /\ text = <<NameMax, AllDayLine, RegularLine>>
    /\ persons_data[1][1].shifts[1].all_day
    /\ persons_data[1][1].shifts[1].shift_time = AllDay
    /\ ~persons_data[1][1].shifts[2].all_day
    /\ persons_data[1][1].shifts[2].shift_time
           = <<"0","8",":","0","0","-","1","6",":","0","0">>

(***************************************************************************)
(* download, views.py:92-137, with load_ical_contents_from_temp_file,      *)
(* views.py:487-505, create_zip_from_ical_contents, views.py:508-541, and  *)
(* common_slugify, views.py:840-858.                                       *)
(***************************************************************************)

\* what slugify makes of one character: the replacements of views.py:847, then
\* ASCII, lower case; every other character separates
slug_char(c) ==
    IF c = "u_uml" THEN <<"u","e">>
    ELSE IF c = "o_uml" THEN <<"o","e">>
    ELSE IF c = "a_uml" THEN <<"a","e">>
    ELSE IF c = "sz" THEN <<"s","s">>
    ELSE IF c = "A_uml" THEN <<"a">>
    ELSE IF c = "O_uml" THEN <<"o">>
    ELSE IF c = "U_uml" THEN <<"u">>
    ELSE IF IsAsciiLetter(c) THEN <<ToLower(c)>>
    ELSE IF IsDigit(c) THEN <<c>>
    ELSE <<"-">>

RECURSIVE slug_chars(_)
slug_chars(s) == IF s = <<>> THEN <<>> ELSE slug_char(Head(s)) \o slug_chars(Tail(s))

\* runs of "-" become one "-", and none stays at either end
RECURSIVE collapse_dashes(_, _)
collapse_dashes(s, i) ==
    IF i > Len(s) THEN <<>>
    ELSE IF s[i] = "-" /\ (i = Len(s) \/ s[i + 1] = "-" \/ collapse_dashes(s, i + 1) = <<>>)
         THEN collapse_dashes(s, i + 1)
         ELSE <<s[i]>> \o collapse_dashes(s, i + 1)

RECURSIVE drop_leading_dashes(_)
drop_leading_dashes(s) ==
    IF s # <<>> /\ Head(s) = "-" THEN drop_leading_dashes(Tail(s)) ELSE s

slugify(t) == drop_leading_dashes(collapse_dashes(slug_chars(t), 1))

\* common_slugify: <<slug>>, or <<>> for the ValueError it raises
common_slugify(t) ==
    IF t = <<>> \/ slugify(t) = <<>> THEN <<>> ELSE <<slugify(t)>>

create_slugified_filename(name) == common_slugify(name)

\* load_ical_contents_from_temp_file: the unpickled object, or the exception
load_ical_contents_from_temp_file(temp_filename, fs) ==
    IF normpath(temp_filename) \notin DOMAIN fs                    \* FileNotFoundError
    THEN [kind |-> "raise", exc |-> "TempFileReadError"]
    ELSE IF fs[normpath(temp_filename)].kind # "pickle"            \* EOFError
         THEN [kind |-> "raise", exc |-> "TempFileReadError"]
         ELSE [kind |-> "return", value |-> fs[normpath(temp_filename)].data]

\* the writestr loop of views.py:527-534 from item i on: the entries written, and
\* whether a name without a slug ended it
RECURSIVE zip_entries(_, _, _)
zip_entries(contents, i, entries) ==
    IF i > Len(contents) THEN [entries |-> entries, exc |-> None]
    ELSE With(create_slugified_filename(contents[i].name), LAMBDA slug :
             IF slug = <<>> THEN [entries |-> entries, exc |-> Some("ValueError")]
             ELSE zip_entries(contents, i + 1,
                              Append(entries,
                                     [filename |-> slug[1] \o <<".","i","c","s">>,
                                      data |-> contents[i].ical_data])))

\* create_zip_from_ical_contents(ical_contents, download_id): the path it returns
\* or the exception it raises, and the files after it
create_zip_from_ical_contents(contents, download_id, fs, dirs) ==
    With(TEMP_DIR \o download_id \o ZIP_EXTENSION, LAMBDA path :
    With(zip_entries(contents, 1, <<>>), LAMBDA made :
        IF dirname(path) \notin dirs
        THEN [kind |-> "raise", exc |-> "FileNotFoundError", files |-> fs]
        ELSE IF made.exc # None
             THEN [kind |-> "raise", exc |-> made.exc[1],
                   files |-> written(fs, path, [kind |-> "zip", entries |-> made.entries])]
             ELSE [kind |-> "return", value |-> path,
                   files |-> written(fs, path,
                                     [kind |-> "zip", entries |-> made.entries])]))

\* the except clause of download: the error is logged and flashed, the answer
\* is the redirect to the home page
redirected(exc, fs, path) ==
    [response |-> [handler |-> "download", kind |-> "redirect", to |-> "views.home"],
     flashed |-> <<"Error: " \o exc>>,
     logged |-> <<"An error occurred during file download: " \o exc>>,
     files |-> fs, zip_path |-> path]

\* an exception that download does not catch leaves the handler
escaped(exc, fs, path) ==
    [response |-> [handler |-> "download", kind |-> "raise", exc |-> exc],
     flashed |-> <<>>,
     logged |-> <<"An error occurred while reading the temporary file">>,
     files |-> fs, zip_path |-> path]

\* send_file(zip_path, ...) in download: the file at the path is the attachment
sent(path, fs) ==
    IF normpath(path) \notin DOMAIN fs THEN redirected("FileNotFoundError", fs, Some(path))
    ELSE [response |-> [handler |-> "download", kind |-> "send_file", path |-> path,
                        download_name |-> "shifts.zip", file |-> fs[normpath(path)]],
          flashed |-> <<>>, logged |-> <<>>, files |-> fs, zip_path |-> Some(path)]

\* download(), views.py:108-137, when mktemp hands out the name new_zip_path
download(sess, fs, dirs, new_zip_path) ==
    IF sess.temp_filename = None THEN redirected("FileNotFoundError", fs, None)
    ELSE With(load_ical_contents_from_temp_file(sess.temp_filename[1], fs), LAMBDA loaded :
             IF loaded.kind = "raise" THEN escaped(loaded.exc, fs, None)
             ELSE IF loaded.value = <<>> THEN redirected("ValueError", fs, None)
             ELSE With(create_zip_from_ical_contents(loaded.value, new_zip_path, fs, dirs),
                       LAMBDA zipped :
                      IF zipped.kind = "raise"
                      THEN redirected(zipped.exc, zipped.files, Some(new_zip_path))
                      ELSE sent(new_zip_path, zipped.files)))

(***************************************************************************)
(* One session: conversions of uploaded texts and downloads, one request   *)
(* after the other, on an installation whose temporary files may be        *)
(* removed or emptied by others.                                           *)
(***************************************************************************)
MaxRequests == 3

\* two texts that give calendars, one without a person, one that the encoder
\* fails on
SessionTexts ==
    { <<NameMax, RegularLine>>, <<NameDoe, AllDayLine>>, <<RegularLine>>,
      <<NameMax, LastDayLine>> }

InitSession ==
    /\ text \in SessionTexts
    /\ all_timezones = WithVienna
    /\ persons_data = None /\ stats = None /\ ical_contents = None
    /\ temp_file = None /\ flashes = <<>> /\ logged = <<>> /\ pc = "start"
    /\ SessionFresh
    /\ directories \in {{gettempdir}, {gettempdir, gettempdir \o gettempdir}}
    /\ NormalizeIdle /\ WeekdayIdle /\ EncodeIdle

\* home(), views.py:74-82: the next file arrives, its text is extracted
Upload ==
    /\ pc = "returned"
    /\ requests < MaxRequests
    /\ text' \in SessionTexts
    /\ persons_data' = None /\ stats' = None /\ ical_contents' = None
    /\ pc' = "start"
    /\ requests' = requests + 1
    /\ UNCHANGED <<all_timezones, temp_file, flashes, logged, normalize_vars,
                   weekday_vars, encode_vars, session, files, directories, response,
                   zip_path, tempnames>>

\* a request for /download
Download ==
    /\ pc = "returned"
    /\ requests < MaxRequests
    /\ \E r \in {download(session, files, directories,
                          tempname(tempnames + 1, ZIP_EXTENSION))} :
           /\ response' = r.response
           /\ flashes' = flashes \o r.flashed
           /\ logged' = logged \o r.logged
           /\ files' = r.files
           /\ zip_path' = r.zip_path
           /\ tempnames' = IF r.zip_path # None THEN tempnames + 1 ELSE tempnames
    /\ requests' = requests + 1
    /\ UNCHANGED <<text, all_timezones, persons_data, stats, ical_contents, temp_file, pc,
                   normalize_vars, weekday_vars, encode_vars, session, directories>>

\* somebody removes the temporary file the session names
RemoveTempFile ==
    /\ session.temp_filename # None
    /\ normpath(session.temp_filename[1]) \in DOMAIN files
    /\ files' = [p \in DOMAIN files \ {normpath(session.temp_filename[1])} |-> files[p]]
    /\ temp_file' = None
    /\ UNCHANGED <<text, all_timezones, persons_data, stats, ical_contents, flashes,
                   logged, pc, normalize_vars, weekday_vars, encode_vars, session,
                   directories, response, zip_path, tempnames, requests>>

\* somebody empties the temporary file the session names
TruncateTempFile ==
    /\ session.temp_filename # None
    /\ normpath(session.temp_filename[1]) \in DOMAIN files
    /\ files[normpath(session.temp_filename[1])].kind = "pickle"
    /\ files' = written(files, session.temp_filename[1], [kind |-> "empty"])
    /\ temp_file' = None
    /\ UNCHANGED <<text, all_timezones, persons_data, stats, ical_contents, flashes,
                   logged, pc, normalize_vars, weekday_vars, encode_vars, session,
                   directories, response, zip_path, tempnames, requests>>

NextSession == Convert \/ Upload \/ Download \/ RemoveTempFile \/ TruncateTempFile

SpecSession == InitSession /\ [][NextSession]_vars

(***************************************************************************)
(* Properties of the download and of the session, under SpecSession.       *)
(***************************************************************************)

\* the temporary file the session names is there and holds calendars
TempFileHoldsCalendars ==
    /\ session.temp_filename # None
    /\ normpath(session.temp_filename[1]) \in DOMAIN files
    /\ files[normpath(session.temp_filename[1])].kind = "pickle"
    /\ files[normpath(session.temp_filename[1])].data # <<>>

\* C12: a request for /download is answered with the file or, when a step
\* failed, with the redirect to the home page and a flashed error; no exception
\* leaves the handler.
C12_download_failure_redirects ==
    response # None /\ response.handler = "download" =>
        /\ response.kind \in {"send_file", "redirect"}
        /\ response.kind = "redirect" => response.to = "views.home" /\ flashes # <<>>

\* the archive create_zip_from_ical_contents is to make of the calendars
archive_of(contents) ==
    [kind |-> "zip",
     entries |-> [i \in DOMAIN contents |->
                     [filename |-> slugify(contents[i].name) \o <<".","i","c","s">>,
                      data |-> contents[i].ical_data]]]

\* C13: when the temporary file of the session holds calendars, /download is
\* answered with send_file of the path zip_path, and the file at that path is
\* the archive with one "<slug>.ics" entry per person.
C13_download_sends_written_zip ==
    response # None /\ response.handler = "download" /\ TempFileHoldsCalendars =>
        /\ response.kind = "send_file"
        /\ response.path = zip_path[1]
        /\ normpath(response.path) \in DOMAIN files
        /\ files[normpath(response.path)]
               = archive_of(files[normpath(session.temp_filename[1])].data)
        /\ response.file = files[normpath(response.path)]

\* C18: a conversion that gives no calendars leaves the session's file name and
\* the files as they are; the session's file name changes only in a conversion
\* that gave a non-empty calendar mapping; and a download after a conversion
\* that gave no calendars, while the file of an earlier one is there, sends the
\* archive of the calendars in that file.
C18_failed_conversion_keeps_download ==
    [][ /\ pc = "start" /\ pc' = "returned" /\ ical_contents' = None
            => session' = session /\ files' = files
        /\ session' # session
            => /\ pc = "start" /\ pc' = "returned"
               /\ ical_contents' # None /\ ical_contents'[1] # <<>>
        /\ /\ pc = "returned" /\ requests' = requests + 1 /\ pc' = "returned"
           /\ ical_contents = None
           /\ TempFileHoldsCalendars
           => /\ response'.kind = "send_file"
              /\ response'.file
                     = archive_of(files[normpath(session.temp_filename[1])].data)
      ]_vars

====
